---- MODULE Spec2Model ----
(***************************************************************************)
(* Model of lib/sprite.py (Sprite, Group, GroupSingle and the Render*      *)
(* groups), of pygame/surfarray.py (array2d, blit_array) and of the        *)
(* initialisation and cleanup wrappers of SDL/__init__.py.                 *)
(*                                                                         *)
(* Sprite objects are the integers 1..NumSprites, group objects are the    *)
(* integers 101..100+MaxGroups; 0 is the value GroupSingle stores in       *)
(* self.sprite when it is empty, as in the source.                         *)
(***************************************************************************)
EXTENDS Integers, Sequences, FiniteSets, TLC

NumSprites == 2
MaxGroups  == 2
MaxSeq     == 2
MaxW       == 2
MaxH       == 2
MaxPad     == 2
MaxArgs    == 2

Sprites  == 1..NumSprites
GroupIds == 101..(100 + MaxGroups)

\* The classes whose membership methods are Group's: Group itself and the
\* Render* classes derived from it.  RenderPlain, RenderClear and RenderUpdates
\* add draw/clear and a lostsprites list and inherit add, remove, has, empty,
\* copy and loop unchanged, so the most derived one, RenderUpdates, stands for
\* the three.
GroupClasses == {"Group", "RenderUpdates"}
Classes      == GroupClasses \cup {"GroupSingle"}

VARIABLES
    kind,        \* class of each constructed group object, "none" before construction
    Sprite_g,    \* Sprite.__g: the keys of each sprite's group dictionary
    spritedict,  \* Group.spritedict: the keys of each group's sprite dictionary
    sprite,      \* GroupSingle.sprite: the held sprite, or 0
    last,        \* the last public call: operation, receiver, argument, exception, return value
    surf,        \* the surface handed to array2d
    ar,          \* what array2d did with it
    blit,        \* what blit_array did with that array and surface
    sdl          \* the last call of a wrapper of the SDL binding

vars == <<kind, Sprite_g, spritedict, sprite, last, surf, ar, blit, sdl>>

\* An argument is one object or a sequence of objects.
One(x)    == [one |-> TRUE, items |-> <<x>>]
Many(seq) == [one |-> FALSE, items |-> seq]

SeqsOver(S) == UNION {[1..n -> S] : n \in 0..MaxSeq}
ArgsOver(S) == {One(x) : x \in S} \cup {Many(q) : q \in SeqsOver(S)}

\* All orders in which the keys of a dictionary can be listed.
Orders(S) == {q \in [1..Cardinality(S) -> S] : \A i, j \in 1..Cardinality(S) : q[i] = q[j] => i = j}

Range(q) == {q[i] : i \in 1..Len(q)}

\* hasattr(x, '_spritegroup'): the group classes define it, Sprite does not.
hasattr_spritegroup(x) == x \in GroupIds

\* The membership state a handler works on, with the exception it has raised.
\* calls counts the add_internal / remove_internal calls made on other objects.
Mem == [k |-> kind, g |-> Sprite_g, d |-> spritedict, s |-> sprite, exc |-> "none", calls |-> 0]

Raise(m, e) == IF m.exc = "none" THEN [m EXCEPT !.exc = e] ELSE m

Called(m) == [m EXCEPT !.calls = @ + 1]

\* del dict[key]
DelGroupKey(m, s, grp) ==
    IF grp \in m.g[s] THEN [m EXCEPT !.g[s] = @ \ {grp}] ELSE Raise(m, "KeyError")

DelSpriteKey(m, grp, s) ==
    IF s \in m.d[grp] THEN [m EXCEPT !.d[grp] = @ \ {s}] ELSE Raise(m, "KeyError")

----------------------------------------------------------------------------
\* Sprite.add_internal / Sprite.remove_internal

Sprite_add_internal(m, s, grp) ==
    IF m.exc # "none" THEN m
    ELSE [Called(m) EXCEPT !.g[s] = @ \cup {grp}]

Sprite_remove_internal(m, s, grp) ==
    IF m.exc # "none" THEN m
    ELSE DelGroupKey(Called(m), s, grp)

\* Group.add_internal / Group.remove_internal (RenderClear.remove_internal
\* differs only in recording a drawn rectangle; every dictionary value is 0
\* until draw() is called)
Group_add_internal(m, grp, s) ==
    IF m.exc # "none" THEN m
    ELSE [m EXCEPT !.d[grp] = @ \cup {s}]

Group_remove_internal(m, grp, s) ==
    IF m.exc # "none" THEN m
    ELSE DelSpriteKey(m, grp, s)

\* GroupSingle.add_internal / GroupSingle.remove_internal
GroupSingle_add_internal(m, grp, s) ==
    IF m.exc # "none" THEN m
    ELSE LET m1 == IF m.s[grp] # 0 THEN Sprite_remove_internal(m, m.s[grp], grp) ELSE m
         IN  IF m1.exc # "none" THEN m1 ELSE [m1 EXCEPT !.s[grp] = s]

GroupSingle_remove_internal(m, grp, s) ==
    IF m.exc # "none" THEN m
    ELSE [m EXCEPT !.s[grp] = 0]

\* group.add_internal(sprite) / group.remove_internal(sprite) by the group's class
add_internal(m, grp, s) ==
    IF m.exc # "none" THEN m
    ELSE IF m.k[grp] = "GroupSingle" THEN GroupSingle_add_internal(Called(m), grp, s)
    ELSE Group_add_internal(Called(m), grp, s)

remove_internal(m, grp, s) ==
    IF m.exc # "none" THEN m
    ELSE IF m.k[grp] = "GroupSingle" THEN GroupSingle_remove_internal(Called(m), grp, s)
    ELSE Group_remove_internal(Called(m), grp, s)

----------------------------------------------------------------------------
\* Sprite.add

Sprite_add_step(m, s, grp) ==
    IF m.exc # "none" THEN m
    ELSE IF grp \in m.g[s] THEN m
    ELSE LET m1 == add_internal(m, grp, s)
         IN  IF m1.exc # "none" THEN m1 ELSE [m1 EXCEPT !.g[s] = @ \cup {grp}]

RECURSIVE Sprite_add_loop(_, _, _)
Sprite_add_loop(m, s, groups) ==
    IF groups = <<>> THEN m
    ELSE Sprite_add_loop(Sprite_add_step(m, s, Head(groups)), s, Tail(groups))

Sprite_add(m, s, group) ==
    IF group.one /\ hasattr_spritegroup(group.items[1])
    THEN Sprite_add_step(m, s, group.items[1])
    ELSE Sprite_add_loop(m, s, group.items)

\* Sprite.remove: the single-group branch deletes self.__g[g], and g is a
\* local that is only bound by the for loop of the other branch.
Sprite_remove_one(m, s, group) ==
    IF m.exc # "none" THEN m
    ELSE IF group \in m.g[s]
         THEN Raise(remove_internal(m, group, s), "UnboundLocalError")
         ELSE m

Sprite_remove_step(m, s, g) ==
    IF m.exc # "none" THEN m
    ELSE IF g \in m.g[s]
         THEN LET m1 == remove_internal(m, g, s)
              IN  IF m1.exc # "none" THEN m1 ELSE DelGroupKey(m1, s, g)
         ELSE m

RECURSIVE Sprite_remove_loop(_, _, _)
Sprite_remove_loop(m, s, groups) ==
    IF groups = <<>> THEN m
    ELSE Sprite_remove_loop(Sprite_remove_step(m, s, Head(groups)), s, Tail(groups))

Sprite_remove(m, s, group) ==
    IF group.one /\ hasattr_spritegroup(group.items[1])
    THEN Sprite_remove_one(m, s, group.items[1])
    ELSE Sprite_remove_loop(m, s, group.items)

\* Sprite.kill: keys is self.__g.keys(), a list made before the loop
RECURSIVE Sprite_kill_loop(_, _, _)
Sprite_kill_loop(m, s, keys) ==
    IF keys = <<>> THEN m
    ELSE Sprite_kill_loop(remove_internal(m, Head(keys), s), s, Tail(keys))

Sprite_kill(m, s, keys) ==
    LET m1 == Sprite_kill_loop(m, s, keys)
    IN  IF m1.exc # "none" THEN m1 ELSE [m1 EXCEPT !.g[s] = {}]

\* Sprite.groups / Sprite.alive
Sprite_groups(s) == Sprite_g[s]
Sprite_alive(s)  == Cardinality(Sprite_g[s])

----------------------------------------------------------------------------
\* Group.add: the argument is a Sprite or a sequence of Sprites; a Sprite has
\* no _spritegroup, so it reaches the for loop, and a Sprite is not iterable.

Group_add_step(m, grp, s) ==
    IF m.exc # "none" THEN m
    ELSE IF s \in m.d[grp] THEN m
    ELSE Sprite_add_internal([m EXCEPT !.d[grp] = @ \cup {s}], s, grp)

RECURSIVE Group_add_loop(_, _, _)
Group_add_loop(m, grp, sprites) ==
    IF sprites = <<>> THEN m
    ELSE Group_add_loop(Group_add_step(m, grp, Head(sprites)), grp, Tail(sprites))

Group_add(m, grp, arg) ==
    IF arg.one /\ hasattr_spritegroup(arg.items[1])
    THEN IF arg.items[1] \in m.d[grp] THEN m
         ELSE Sprite_add_internal(Group_add_internal(m, grp, arg.items[1]), arg.items[1], grp)
    ELSE IF arg.one THEN Raise(m, "TypeError")
    ELSE Group_add_loop(m, grp, arg.items)

\* Group.remove and Group.has: both start with hasattr(sprites, '_spritegroup'),
\* and sprites is a local that is bound only further down.
Group_remove(m, grp, arg) == Raise(m, "UnboundLocalError")

Group_has(m, grp, arg) == [exc |-> "UnboundLocalError", ret |-> <<>>]

\* Group.empty: keys is self.spritedict.keys()
Group_empty_step(m, grp, s) ==
    Sprite_remove_internal(Group_remove_internal(m, grp, s), s, grp)

RECURSIVE Group_empty_loop(_, _, _)
Group_empty_loop(m, grp, keys) ==
    IF keys = <<>> THEN m
    ELSE Group_empty_loop(Group_empty_step(m, grp, Head(keys)), grp, Tail(keys))

Group_empty(m, grp, keys) ==
    LET m1 == Group_empty_loop(m, grp, keys)
    IN  IF m1.exc # "none" THEN m1 ELSE [m1 EXCEPT !.d[grp] = {}]

\* Truth value of a constructor argument: a Sprite instance is true, a
\* sequence is true when it is not empty.
Truth(arg) == arg.one \/ arg.items # <<>>

\* Group.__init__ (RenderClear.__init__ adds an empty lostsprites list)
Group_init(m, grp, cls, arg) ==
    LET m0 == [m EXCEPT !.k[grp] = cls, !.d[grp] = {}]
    IN  IF Truth(arg) THEN Group_add(m0, grp, arg) ELSE m0

\* Group.loop: spritedict.keys(), in any order the dictionary lists them
Group_loop(grp) == Orders(spritedict[grp])

\* Group.__len__
Group_len(grp) == Cardinality(spritedict[grp])

----------------------------------------------------------------------------
\* GroupSingle

GroupSingle_add(m, grp, arg) ==
    IF arg.one /\ hasattr_spritegroup(arg.items[1])
    THEN LET m1 == IF m.s[grp] # 0 THEN Sprite_remove_internal(m, m.s[grp], grp) ELSE m
         IN  IF m1.exc # "none" THEN m1
             ELSE Sprite_add_internal([m1 EXCEPT !.s[grp] = arg.items[1]], arg.items[1], grp)
    ELSE IF ~Truth(arg) THEN m
    ELSE LET m1 == IF m.s[grp] # 0 THEN Sprite_remove_internal(m, m.s[grp], grp) ELSE m
         IN  IF m1.exc # "none" THEN m1
             ELSE IF arg.one THEN Raise(m1, "AttributeError")
             ELSE LET new == arg.items[Len(arg.items)]
                  IN  Sprite_add_internal([m1 EXCEPT !.s[grp] = new], new, grp)

RECURSIVE GroupSingle_remove_loop(_, _, _)
GroupSingle_remove_loop(m, grp, sprites) ==
    IF sprites = <<>> \/ m.exc # "none" THEN m
    ELSE IF m.s[grp] = Head(sprites)
         THEN Sprite_remove_internal([m EXCEPT !.s[grp] = 0], Head(sprites), grp)
         ELSE GroupSingle_remove_loop(m, grp, Tail(sprites))

GroupSingle_remove(m, grp, arg) ==
    IF arg.one /\ hasattr_spritegroup(arg.items[1])
    THEN IF m.s[grp] = arg.items[1]
         THEN Sprite_remove_internal([m EXCEPT !.s[grp] = 0], arg.items[1], grp)
         ELSE m
    ELSE IF arg.one THEN Raise(m, "TypeError")
    ELSE GroupSingle_remove_loop(m, grp, arg.items)

\* GroupSingle.has: self.sprite is sprite; a sequence is never the sprite
GroupSingle_has(m, grp, arg) ==
    [exc |-> "none",
     ret |-> <<IF arg.one /\ m.s[grp] = arg.items[1] THEN 1 ELSE 0>>]

GroupSingle_empty(m, grp) ==
    IF m.s[grp] # 0
    THEN LET m1 == Sprite_remove_internal(m, m.s[grp], grp)
         IN  IF m1.exc # "none" THEN m1 ELSE [m1 EXCEPT !.s[grp] = 0]
    ELSE m

GroupSingle_init(m, grp, arg) ==
    GroupSingle_add([m EXCEPT !.k[grp] = "GroupSingle", !.s[grp] = 0], grp, arg)

\* GroupSingle.loop: [self.sprite]
GroupSingle_loop(grp) == {<<sprite[grp]>>}

\* GroupSingle.__len__: self.sprite is not 0
GroupSingle_len(grp) == IF sprite[grp] # 0 THEN 1 ELSE 0

----------------------------------------------------------------------------
\* The program: any sequence of public calls on the sprites and groups.

NoCall == [op |-> "none", self |-> 0, arg |-> Many(<<>>), exc |-> "none", ret |-> <<>>, calls |-> 0]

Call(op, self, arg, m, ret) ==
    [op |-> op, self |-> self, arg |-> arg, exc |-> m.exc, ret |-> ret, calls |-> m.calls]

\* The method a call on a group object resolves to.
Method(grp, name) ==
    IF kind[grp] = "GroupSingle" THEN "GroupSingle." \o name ELSE "Group." \o name

Constructed == {grp \in GroupIds : kind[grp] # "none"}

\* The object a constructor call creates: the next unused identity.
IsFresh(grp) == kind[grp] = "none" /\ \A h \in GroupIds : h < grp => kind[h] # "none"

\* The handler's effect on the program state.
Commit(m) ==
    /\ kind' = m.k
    /\ Sprite_g' = m.g
    /\ spritedict' = m.d
    /\ sprite' = m.s
    /\ UNCHANGED <<surf, ar, blit, sdl>>

\* A constructor that raises leaves no object behind.
Discard(m, new) ==
    IF m.exc = "none" THEN m ELSE [m EXCEPT !.k[new] = "none", !.d[new] = {}, !.s[new] = 0]

InitSprites ==
    /\ kind = [grp \in GroupIds |-> "none"]
    /\ Sprite_g = [s \in Sprites |-> {}]
    /\ spritedict = [grp \in GroupIds |-> {}]
    /\ sprite = [grp \in GroupIds |-> 0]
    /\ last = NoCall

NewGroup ==
    \E new \in GroupIds, cls \in GroupClasses, arg \in ArgsOver(Sprites) :
        /\ IsFresh(new)
        /\ LET m == Group_init(Mem, new, cls, arg)
           IN  /\ Commit(Discard(m, new))
               /\ last' = Call(cls, new, arg, m, <<>>)

NewGroupSingle ==
    \E new \in GroupIds, arg \in ArgsOver(Sprites) :
        /\ IsFresh(new)
        /\ LET m == GroupSingle_init(Mem, new, arg)
           IN  /\ Commit(Discard(m, new))
               /\ last' = Call("GroupSingle", new, arg, m, <<>>)

SpriteAdd ==
    \E s \in Sprites, arg \in ArgsOver(Constructed) :
        LET m == Sprite_add(Mem, s, arg)
        IN  /\ Commit(m)
            /\ last' = Call("Sprite.add", s, arg, m, <<>>)

SpriteRemove ==
    \E s \in Sprites, arg \in ArgsOver(Constructed) :
        LET m == Sprite_remove(Mem, s, arg)
        IN  /\ Commit(m)
            /\ last' = Call("Sprite.remove", s, arg, m, <<>>)

SpriteKill ==
    \E s \in Sprites : \E keys \in Orders(Sprite_g[s]) :
        LET m == Sprite_kill(Mem, s, keys)
        IN  /\ Commit(m)
            /\ last' = Call("Sprite.kill", s, Many(<<>>), m, <<>>)

GroupAdd ==
    \E grp \in Constructed, arg \in ArgsOver(Sprites) :
        LET m == IF kind[grp] = "GroupSingle" THEN GroupSingle_add(Mem, grp, arg)
                 ELSE Group_add(Mem, grp, arg)
        IN  /\ Commit(m)
            /\ last' = Call(Method(grp, "add"), grp, arg, m, <<>>)

GroupRemove ==
    \E grp \in Constructed, arg \in ArgsOver(Sprites) :
        LET m == IF kind[grp] = "GroupSingle" THEN GroupSingle_remove(Mem, grp, arg)
                 ELSE Group_remove(Mem, grp, arg)
        IN  /\ Commit(m)
            /\ last' = Call(Method(grp, "remove"), grp, arg, m, <<>>)

GroupHas ==
    \E grp \in Constructed, arg \in ArgsOver(Sprites) :
        LET r == IF kind[grp] = "GroupSingle" THEN GroupSingle_has(Mem, grp, arg)
                 ELSE Group_has(Mem, grp, arg)
        IN  /\ Commit(Mem)
            /\ last' = Call(Method(grp, "has"), grp, arg, [exc |-> r.exc, calls |-> 0], r.ret)

GroupEmpty ==
    \E grp \in Constructed : \E keys \in Orders(spritedict[grp]) :
        LET m == IF kind[grp] = "GroupSingle" THEN GroupSingle_empty(Mem, grp)
                 ELSE Group_empty(Mem, grp, keys)
        IN  /\ Commit(m)
            /\ last' = Call(Method(grp, "empty"), grp, Many(<<>>), m, <<>>)

\* Group.copy: self.__class__(self.spritedict.keys());
\* GroupSingle.copy: GroupSingle(self.sprite), or GroupSingle() when empty
GroupCopy ==
    \E grp \in Constructed, new \in GroupIds : \E keys \in Orders(spritedict[grp]) :
        /\ IsFresh(new)
        /\ LET m == IF kind[grp] = "GroupSingle"
                    THEN GroupSingle_init(Mem, new,
                             IF sprite[grp] # 0 THEN One(sprite[grp]) ELSE Many(<<>>))
                    ELSE Group_init(Mem, new, kind[grp], Many(keys))
           IN  /\ Commit(Discard(m, new))
               /\ last' = Call(Method(grp, "copy"), grp, Many(<<>>), m,
                               IF m.exc = "none" THEN <<new>> ELSE <<>>)

GroupLoop ==
    \E grp \in Constructed :
        \E r \in (IF kind[grp] = "GroupSingle" THEN GroupSingle_loop(grp) ELSE Group_loop(grp)) :
            /\ Commit(Mem)
            /\ last' = Call(Method(grp, "loop"), grp, Many(<<>>), Mem, r)

\* blit_array has not been called
NotBlitted == [exc |-> "not called", pixels |-> <<>>, order |-> "none"]

Next ==
    \/ NewGroup
    \/ NewGroupSingle
    \/ SpriteAdd
    \/ SpriteRemove
    \/ SpriteKill
    \/ GroupAdd
    \/ GroupRemove
    \/ GroupHas
    \/ GroupEmpty
    \/ GroupCopy
    \/ GroupLoop

Init ==
    /\ InitSprites
    /\ surf = 0
    /\ ar = 0
    /\ blit = NotBlitted
    /\ sdl = 0

Spec == Init /\ [][Next]_vars

----------------------------------------------------------------------------
\* Properties of the sprite and group classes.

\* sprite s is contained in group grp, in a given state of the groups
ContainedIn(k, d, sp, grp, s) ==
    IF k[grp] = "GroupSingle" THEN sp[grp] = s ELSE s \in d[grp]

Contained(grp, s)  == ContainedIn(kind, spritedict, sprite, grp, s)
Contained1(grp, s) == ContainedIn(kind', spritedict', sprite', grp, s)

\* the pair (grp, s) is linked the same way before and after the step
SameLink(grp, s) ==
    /\ (grp \in Sprite_g[s]) <=> (grp \in Sprite_g'[s])
    /\ Contained(grp, s) <=> Contained1(grp, s)

MembershipUnchanged == UNCHANGED <<kind, Sprite_g, spritedict, sprite>>

Mutual ==
    \A s \in Sprites, grp \in Constructed : (grp \in Sprite_groups(s)) <=> Contained(grp, s)

\* C1: after any sequence of public calls, returning or raising, a group is
\* in s.groups() if and only if s is contained in the group.
C1_MutualMembership == Mutual

\* C2: adding a sprite to a group it is already in (Sprite.add, Group.add) and
\* removing a sprite from a group it is not in (Sprite.remove, Group.remove)
\* changes no membership, calls no add_internal/remove_internal on the other
\* side and raises no error.
C2_Redundant(c) ==
    /\ c.arg.items # <<>>
    /\ \/ /\ c.op = "Sprite.add"
          /\ \A grp \in Range(c.arg.items) : grp \in Sprite_g[c.self] /\ Contained(grp, c.self)
       \/ /\ c.op = "Group.add"
          /\ \A s \in Range(c.arg.items) : c.self \in Sprite_g[s] /\ Contained(c.self, s)
       \/ /\ c.op = "Sprite.remove"
          /\ \A grp \in Range(c.arg.items) : grp \notin Sprite_g[c.self] /\ ~Contained(grp, c.self)
       \/ /\ c.op = "Group.remove"
          /\ \A s \in Range(c.arg.items) : c.self \notin Sprite_g[s] /\ ~Contained(c.self, s)

C2_RedundantCallsAreNoOps ==
    [][C2_Redundant(last') =>
          last'.exc = "none" /\ last'.calls = 0 /\ MembershipUnchanged]_vars

\* C3: s.remove(g) and s.remove(gs) return normally, leave s in none of the
\* given groups and none of them in s.groups(), and change no other membership.
C3_SpriteRemove ==
    [][last'.op = "Sprite.remove" =>
          /\ last'.exc = "none"
          /\ \A grp \in Range(last'.arg.items) :
                ~Contained1(grp, last'.self) /\ grp \notin Sprite_g'[last'.self]
          /\ \A s \in Sprites, grp \in Constructed :
                (s # last'.self \/ grp \notin Range(last'.arg.items)) => SameLink(grp, s)]_vars

\* C4: g.remove(x) returns normally, leaves none of the given sprites in g and
\* g in none of their groups(), and changes no other membership.
C4_GroupRemove ==
    [][last'.op = "Group.remove" =>
          /\ last'.exc = "none"
          /\ \A s \in Range(last'.arg.items) :
                ~Contained1(last'.self, s) /\ last'.self \notin Sprite_g'[s]
          /\ \A s \in Sprites, grp \in Constructed :
                (grp # last'.self \/ s \notin Range(last'.arg.items)) => SameLink(grp, s)]_vars

\* C5: g.has(x) returns true exactly when the given sprite, or every sprite of
\* the given sequence, is contained in g, false otherwise, and changes no state.
C5_GroupHas ==
    [][last'.op = "Group.has" =>
          /\ last'.exc = "none"
          /\ last'.ret = <<IF \A s \in Range(last'.arg.items) : Contained(last'.self, s)
                           THEN 1 ELSE 0>>
          /\ MembershipUnchanged]_vars

\* C6: after g.add(s) or Group(s) with one Sprite instance s, s is contained
\* in the group and the group is in s.groups().
C6_GroupAddOneSprite ==
    (last.op \in GroupClasses \cup {"Group.add"} /\ last.arg.one) =>
        /\ last.exc = "none"
        /\ Contained(last.self, last.arg.items[1])
        /\ last.self \in Sprite_groups(last.arg.items[1])

\* C7: after s.kill(), s is contained in no group, s.groups() is empty,
\* s.alive() is false and the other sprites' memberships are unchanged; a
\* later s.add(g) makes s a member of g.
C7_Kill ==
    [][/\ last'.op = "Sprite.kill" =>
             /\ last'.exc = "none"
             /\ \A grp \in Constructed : ~Contained1(grp, last'.self)
             /\ Sprite_g'[last'.self] = {}
             /\ \A s \in Sprites \ {last'.self}, grp \in Constructed : SameLink(grp, s)
       /\ (last.op = "Sprite.kill" /\ last'.op = "Sprite.add" /\ last'.self = last.self) =>
             /\ last'.exc = "none"
             /\ \A grp \in Range(last'.arg.items) :
                   Contained1(grp, last'.self) /\ grp \in Sprite_g'[last'.self]]_vars

\* C8: a GroupSingle holds the sprite added last (by s.add(gs), gs.add(s) or
\* gs.add(sequence)), and no other sprite has it in its groups().
C8_Single(gs) ==
    /\ (last'.op = "GroupSingle.add" /\ last'.self = gs /\ Truth(last'.arg)) =>
          /\ last'.exc = "none"
          /\ sprite'[gs] = last'.arg.items[Len(last'.arg.items)]
    /\ (last'.op = "Sprite.add" /\ gs \in Range(last'.arg.items)) =>
          /\ last'.exc = "none"
          /\ sprite'[gs] = last'.self
    /\ \A s \in Sprites : gs \in Sprite_g'[s] => sprite'[gs] = s

C8_GroupSingleKeepsLast ==
    [][\A gs \in GroupIds : kind'[gs] = "GroupSingle" => C8_Single(gs)]_vars

\* C9: loop() returns exactly the sprites contained in the group, each once;
\* its length is len(group), and it is empty when the group is empty.
C9_Loop ==
    last.op \in {"Group.loop", "GroupSingle.loop"} =>
        /\ last.exc = "none"
        /\ \A i, j \in 1..Len(last.ret) : last.ret[i] = last.ret[j] => i = j
        /\ Range(last.ret) = {s \in Sprites : Contained(last.self, s)}
        /\ Len(last.ret) = (IF kind[last.self] = "GroupSingle"
                            THEN GroupSingle_len(last.self) ELSE Group_len(last.self))

\* Supporting facts: what the same calls do where the faults above are not met.

\* kill() from a state where membership is mutual does what C7 says
KillFromMutualState ==
    [][(Mutual /\ last'.op = "Sprite.kill") =>
          /\ last'.exc = "none"
          /\ \A grp \in Constructed : ~Contained1(grp, last'.self)
          /\ Sprite_g'[last'.self] = {}
          /\ \A s \in Sprites \ {last'.self}, grp \in Constructed : SameLink(grp, s)]_vars

\* loop() of Group and the Render* classes lists the contained sprites, each once
GroupLoopListsMembers ==
    last.op = "Group.loop" =>
        /\ \A i, j \in 1..Len(last.ret) : last.ret[i] = last.ret[j] => i = j
        /\ Range(last.ret) = spritedict[last.self]
        /\ Len(last.ret) = Group_len(last.self)

\* with a sequence argument, Sprite.remove and Group.add do what C3 and C6 say
\* from a state where membership is mutual
SequenceCallsWork ==
    [][(Mutual /\ ~last'.arg.one) =>
          /\ last'.op = "Sprite.remove" =>
                /\ last'.exc = "none"
                /\ \A grp \in Range(last'.arg.items) :
                      ~Contained1(grp, last'.self) /\ grp \notin Sprite_g'[last'.self]
          /\ last'.op = "Group.add" =>
                /\ last'.exc = "none"
                /\ \A s \in Range(last'.arg.items) :
                      Contained1(last'.self, s) /\ last'.self \in Sprite_g'[s]]_vars

\* the only calls that break mutual membership are Sprite.remove(group) and
\* GroupSingle.add(sprite), each with a single object
MutualBrokenOnlyBy ==
    [][(Mutual /\ ~Mutual') =>
          /\ last'.arg.one
          /\ last'.op \in {"Sprite.remove", "GroupSingle.add"}]_vars

----------------------------------------------------------------------------
\* pygame/surfarray.py: array2d.  A surface is its width, height, pitch and
\* bytes per pixel, the pitch*h bytes of its pixel buffer, and the byte order
\* of the build (SDL_BYTEORDER).

SDL_LIL_ENDIAN == "SDL_LIL_ENDIAN"
SDL_BIG_ENDIAN == "SDL_BIG_ENDIAN"

\* Buffer contents: byte i (from 0) is (seed + step*i) mod 256.
Fills == {<<1, 1>>, <<250, 37>>, <<0, 129>>}

Buffer(n, fill) == [i \in 1..n |-> (fill[1] + fill[2] * (i - 1)) % 256]

Surfaces ==
    {[w |-> w, h |-> h, bpp |-> bpp, pitch |-> w * bpp + pad,
      pixels |-> Buffer((w * bpp + pad) * h, fill), byteorder |-> bo] :
        w \in 0..MaxW, h \in 0..MaxH, bpp \in 1..4, pad \in 0..MaxPad,
        fill \in Fills, bo \in {SDL_LIL_ENDIAN, SDL_BIG_ENDIAN}}

\* ''.join(re.compile('(' + '.'*keep + ')' + '.'*skip, DOTALL).findall(data)):
\* the matches are taken left to right without overlap, each keep+skip bytes
\* long, and the group of each is kept.
RECURSIVE FindallJoin(_, _, _)
FindallJoin(data, keep, skip) ==
    IF Len(data) < keep + skip THEN <<>>
    ELSE SubSeq(data, 1, keep) \o FindallJoin(SubSeq(data, keep + skip + 1, Len(data)), keep, skip)

\* '\0'.join(re.compile('...', DOTALL).findall(data))
RECURSIVE ZeroJoinTriplets(_)
ZeroJoinTriplets(data) ==
    IF Len(data) < 3 THEN <<>>
    ELSE IF Len(data) < 6 THEN SubSeq(data, 1, 3)
    ELSE SubSeq(data, 1, 3) \o <<0>> \o ZeroJoinTriplets(SubSeq(data, 4, Len(data)))

\* The unsigned integer a run of bytes holds in the given byte order, written
\* as its base-256 digits, least significant first, without high zeros (a
\* 32-bit value does not fit the model checker's integers).
RECURSIVE Reverse(_)
Reverse(q) == IF q = <<>> THEN <<>> ELSE Reverse(Tail(q)) \o <<Head(q)>>

RECURSIVE StripHighZeros(_)
StripHighZeros(digits) ==
    IF digits = <<>> THEN <<>>
    ELSE IF digits[Len(digits)] = 0 THEN StripHighZeros(SubSeq(digits, 1, Len(digits) - 1))
    ELSE digits

LittleEndian(bytes) == StripHighZeros(bytes)

BigEndian(bytes) == StripHighZeros(Reverse(bytes))

Unsigned(bytes, byteorder) ==
    IF byteorder = SDL_LIL_ENDIAN THEN LittleEndian(bytes) ELSE BigEndian(bytes)

\* Element [x][y] of an array over data with the given byte strides.
StridedItem(data, x, y, strides, itemsize, byteorder) ==
    LET at == x * strides[1] + y * strides[2]
    IN  Unsigned(SubSeq(data, at + 1, at + itemsize), byteorder)

array2d(surface) ==
    LET bpp0      == surface.bpp
        data0     == surface.pixels
        pitchdiff == surface.pitch - surface.w * bpp0
        data1     == IF pitchdiff > 0
                     THEN FindallJoin(data0, surface.w * bpp0, pitchdiff)
                     ELSE data0
        data      == IF bpp0 = 3
                     THEN IF surface.byteorder = SDL_LIL_ENDIAN
                          THEN ZeroJoinTriplets(data1) \o <<0>>
                          ELSE <<0>> \o ZeroJoinTriplets(data1)
                     ELSE data1
        bpp       == IF bpp0 = 3 THEN 4 ELSE bpp0
        shape     == <<surface.w, surface.h>>
        fake_strides == <<bpp, bpp * surface.w>>
    IN  IF bpp0 <= 0 \/ bpp0 > 4
        THEN [exc |-> "ValueError", shape |-> <<>>, elem |-> <<>>]
        ELSE IF Len(data) # bpp * surface.w * surface.h
        THEN [exc |-> "AssertionError", shape |-> <<>>, elem |-> <<>>]
        ELSE [exc |-> "none", shape |-> shape,
              elem |-> [x \in 0..(shape[1] - 1), y \in 0..(shape[2] - 1) |->
                           StridedItem(data, x, y, fake_strides, bpp, surface.byteorder)],
              data |-> data, strides |-> fake_strides, itemsize |-> bpp]

NotCalled == [exc |-> "not called", shape |-> <<>>, elem |-> <<>>]

InitArray ==
    /\ InitSprites
    /\ surf \in Surfaces
    /\ ar = NotCalled
    /\ blit = NotBlitted
    /\ sdl = 0

Array2d ==
    /\ ar = NotCalled
    /\ ar' = array2d(surf)
    /\ UNCHANGED <<kind, Sprite_g, spritedict, sprite, last, surf, blit, sdl>>

NextArray == Array2d

SpecArray == InitArray /\ [][NextArray]_vars

\* The value of the pixel at column x, row y of the surface: its bpp bytes at
\* offset y*pitch + x*bpp of the buffer, read in the byte order of the build.
PixelValue(surface, x, y) ==
    LET at == y * surface.pitch + x * surface.bpp
    IN  IF surface.byteorder = SDL_LIL_ENDIAN
        THEN LittleEndian(SubSeq(surface.pixels, at + 1, at + surface.bpp))
        ELSE BigEndian(SubSeq(surface.pixels, at + 1, at + surface.bpp))

CopiesPixels ==
    /\ ar.exc = "none"
    /\ ar.shape = <<surf.w, surf.h>>
    /\ \A x \in 0..(surf.w - 1), y \in 0..(surf.h - 1) :
          ar.elem[x, y] = PixelValue(surf, x, y)

\* C10: array2d of a surface with 1 to 4 bytes per pixel and any pitch >=
\* width*bpp returns an array of shape (width, height) whose element [x][y] is
\* the value of the pixel at column x, row y.
C10_Array2d == ar # NotCalled => CopiesPixels

\* Supporting fact: C10 holds of every surface that has at least one pixel.
Array2dOfNonEmptySurface ==
    (ar # NotCalled /\ surf.w * surf.h > 0) => CopiesPixels

\* Supporting fact: the only surfaces array2d fails on are the 3-byte ones with no pixel.
Array2dFailsOnlyOnEmpty24 ==
    (ar # NotCalled /\ ar.exc # "none") =>
        (ar.exc = "AssertionError" /\ surf.bpp = 3 /\ surf.w * surf.h = 0)

----------------------------------------------------------------------------
\* pygame/surfarray.py: blit_array, applied to the surface and the array that
\* array2d made of it.  surf stays the surface as it was before the calls;
\* blit.pixels is its pixel buffer after blit_array.

\* re.compile('.' * n, DOTALL).findall(data): the pieces of n bytes, left to
\* right; an empty pattern matches once at every position.
RECURSIVE Pieces(_, _)
Pieces(data, n) ==
    IF n = 0 THEN [i \in 1..(Len(data) + 1) |-> <<>>]
    ELSE IF Len(data) < n THEN <<>>
    ELSE <<SubSeq(data, 1, n)>> \o Pieces(SubSeq(data, n + 1, Len(data)), n)

\* pad.join(pieces)
RECURSIVE Join(_, _)
Join(pad, pieces) ==
    IF pieces = <<>> THEN <<>>
    ELSE IF Len(pieces) = 1 THEN pieces[1]
    ELSE pieces[1] \o pad \o Join(pad, Tail(pieces))

Zeros(n) == [i \in 1..n |-> 0]

\* array.tostring().  The array made by array2d has its strides overwritten,
\* so its index order ([x][y], last index fastest) is not the order of its
\* buffer.  numpy lists the elements in index order; a library that does not
\* notice the overwritten strides hands back the buffer as it lies in memory.
tostring(array, order) ==
    IF order = "memory" THEN array.data  \* "index" otherwise
    ELSE [k \in 1..(array.shape[1] * array.shape[2] * array.itemsize) |->
             LET e == (k - 1) \div array.itemsize
                 x == e \div array.shape[2]
                 y == e % array.shape[2]
             IN  array.data[x * array.strides[1] + y * array.strides[2]
                            + ((k - 1) % array.itemsize) + 1]]

TostringOrders == {"index", "memory"}

\* memmove(surf.pixels.ptr, data, len(data))
memmove(pixels, data) ==
    [i \in 1..Len(pixels) |-> IF i <= Len(data) THEN data[i] ELSE pixels[i]]

blit_array(surface, array, order) ==
    LET bpp      == surface.bpp
        shape    == array.shape
        data0    == tostring(array, order)
        itemsize == array.itemsize
        data1    == IF itemsize > bpp
                    THEN IF surface.byteorder = SDL_LIL_ENDIAN
                         THEN FindallJoin(data0, bpp, itemsize - bpp)
                         ELSE Join(<<>>, [i \in 1..Len(Pieces(data0, itemsize)) |->
                                  SubSeq(Pieces(data0, itemsize)[i], itemsize - bpp + 1, itemsize)])
                    ELSE IF itemsize < bpp
                    THEN IF surface.byteorder = SDL_LIL_ENDIAN
                         THEN Join(Zeros(bpp - itemsize), Pieces(data0, itemsize))
                                  \o Zeros(bpp - itemsize)
                         ELSE Zeros(bpp - itemsize)
                                  \o Join(Zeros(bpp - itemsize), Pieces(data0, itemsize))
                    ELSE data0
        pitchdiff == surface.pitch - surface.w * bpp
        data      == IF pitchdiff > 0
                     THEN Join(Zeros(pitchdiff), Pieces(data1, surface.w * bpp))
                              \o Zeros(pitchdiff)
                     ELSE data1
    IN  IF Len(shape) # 2
        THEN [exc |-> "ValueError", pixels |-> surface.pixels, order |-> order]
        ELSE IF bpp <= 0 \/ bpp > 4
        THEN [exc |-> "ValueError", pixels |-> surface.pixels, order |-> order]
        ELSE IF surface.w # shape[1] \/ surface.h # shape[2]
        THEN [exc |-> "ValueError", pixels |-> surface.pixels, order |-> order]
        ELSE [exc |-> "none", pixels |-> memmove(surface.pixels, data), order |-> order]

BlitArray ==
    /\ ar # NotCalled
    /\ ar.exc = "none"
    /\ blit = NotBlitted
    /\ \E order \in TostringOrders : blit' = blit_array(surf, ar, order)
    /\ UNCHANGED <<kind, Sprite_g, spritedict, sprite, last, surf, ar, sdl>>

\* blit_array(surface, array2d(surface))
NextRoundTrip ==
    \/ Array2d
    \/ BlitArray

SpecRoundTrip == InitArray /\ [][NextRoundTrip]_vars

\* every pixel of the surface has, in the buffer after the calls, the value
\* it had before them
PixelsRestored ==
    /\ blit.exc = "none"
    /\ \A x \in 0..(surf.w - 1), y \in 0..(surf.h - 1) :
          PixelValue([surf EXCEPT !.pixels = blit.pixels], x, y) = PixelValue(surf, x, y)

\* C12: for a surface with 1, 2 or 4 bytes per pixel and any width, height and
\* pitch, blit_array(surface, array2d(surface)) leaves every pixel equal to
\* its value before the two calls.
C12_RoundTrip ==
    (blit # NotBlitted /\ surf.bpp \in {1, 2, 4}) => PixelsRestored

\* Supporting facts: the round trip restores the pixels when tostring() hands
\* back the buffer as it lies in memory, and, whatever tostring() does, when
\* the surface has a single row or a single column.
RoundTripInMemoryOrder ==
    (blit # NotBlitted /\ surf.bpp \in {1, 2, 4} /\ blit.order = "memory") => PixelsRestored

RoundTripOfOneRowOrColumn ==
    (blit # NotBlitted /\ surf.bpp \in {1, 2, 4} /\ (surf.w <= 1 \/ surf.h <= 1)) => PixelsRestored

----------------------------------------------------------------------------
\* SDL/__init__.py: the initialisation and cleanup functions of the binding.
\*
\* SDL.dll.function is not among the sources; it is modelled from the
\* specification's description of the binding (each C function is mapped to a
\* callable wrapper with the declared argument and return types): the wrapper
\* takes as many arguments as it declares types, converts each to its type,
\* calls the native function and hands back a value of the return type.

function(name, args, arg_types, return_type) ==
    [name |-> name, args |-> args, arg_types |-> arg_types, return_type |-> return_type]

\* The declarations, as written in the binding module.
SDL_Init          == function("SDL_Init", <<"flags">>, <<"c_uint">>, "c_int")
SDL_InitSubSystem == function("SDL_InitSubSystem", <<"flags">>, <<"c_uint">>, "c_int")
\* SDL_QuitSubSystem declared with the return type of its neighbours
SDL_QuitSubSystem_ReturnsInt ==
    function("SDL_QuitSubSystem", <<"flags">>, <<"c_uint">>, "c_int")

SDL_QuitSubSystem == function("SDL_QuitSubSystem", <<"flags">>, <<"c_uint">>, "None")
SDL_WasInit       == function("SDL_WasInit", <<"flags">>, <<"c_uint">>, "c_int")
SDL_Quit          == function("SDL_Quit", <<>>, <<>>, "None")

Wrappers == {SDL_Init, SDL_InitSubSystem, SDL_QuitSubSystem, SDL_WasInit, SDL_Quit}

\* Values a caller may pass: Python integers and, as a value of another type, a string.
PyInt(n) == [type |-> "int", v |-> n]
PyStr    == [type |-> "str", v |-> 0]
PyNone   == [type |-> "NoneType", v |-> 0]

PyValues == {PyInt(n) : n \in {-1, 0, 1, 32, 65535}} \cup {PyStr}

\* What the native function may answer to a call that returns an int.
NativeInts == {-1, 0, 1}

\* c_uint(n): n modulo 2^32, written as its two 16-bit halves <<high, low>>.
c_uint(n) == <<(n \div 65536) % 65536, n % 65536>>

\* Conversion of one argument to its declared type.
Convert(ctype, value) ==
    IF value.type # "int" THEN [ok |-> FALSE, ctype |-> ctype, v |-> <<>>]
    ELSE [ok |-> TRUE, ctype |-> ctype, v |-> c_uint(value.v)]

\* A call wrapper(*pyargs); native is the int the C function answers.
CallWrapper(wrapper, pyargs, native) ==
    LET passed == [i \in 1..Len(pyargs) |->
                      IF i <= Len(wrapper.arg_types)
                      THEN Convert(wrapper.arg_types[i], pyargs[i])
                      ELSE [ok |-> FALSE, ctype |-> "none", v |-> <<>>]]
    IN  IF Len(pyargs) # Len(wrapper.arg_types)
        THEN [f |-> wrapper.name, args |-> pyargs, exc |-> "TypeError",
              passed |-> <<>>, ret |-> PyNone]
        ELSE IF \E i \in 1..Len(pyargs) : ~passed[i].ok
        THEN [f |-> wrapper.name, args |-> pyargs, exc |-> "ArgumentError",
              passed |-> <<>>, ret |-> PyNone]
        ELSE [f |-> wrapper.name, args |-> pyargs, exc |-> "none",
              passed |-> passed,
              ret |-> IF wrapper.return_type = "c_int" THEN PyInt(native) ELSE PyNone]

NoSDLCall == [f |-> "none", args |-> <<>>, exc |-> "none", passed |-> <<>>, ret |-> PyNone]

InitSDL ==
    /\ InitSprites
    /\ surf = 0
    /\ ar = 0
    /\ blit = NotBlitted
    /\ sdl = NoSDLCall

SDLCall ==
    \E wrapper \in Wrappers, n \in 0..MaxArgs, native \in NativeInts :
        \E pyargs \in [1..n -> PyValues] :
            /\ sdl' = CallWrapper(wrapper, pyargs, native)
            /\ UNCHANGED <<kind, Sprite_g, spritedict, sprite, last, surf, ar, blit>>

NextSDL == SDLCall

SpecSDL == InitSDL /\ [][NextSDL]_vars

\* A call took exactly the arguments typed by ctypes, each a 32-bit unsigned
\* value, and answered a value of Python type rtype.
TakesAndReturns(call, ctypes, rtype) ==
    /\ call.exc = "none" <=>
          (Len(call.args) = Len(ctypes) /\ \A i \in 1..Len(call.args) : call.args[i].type = "int")
    /\ call.exc = "none" =>
          /\ Len(call.passed) = Len(ctypes)
          /\ \A i \in 1..Len(ctypes) :
                /\ call.passed[i].ctype = ctypes[i]
                /\ call.passed[i].v \in (0..65535) \X (0..65535)
          /\ call.ret.type = rtype

\* C11: SDL_Init, SDL_InitSubSystem and SDL_WasInit take exactly one unsigned
\* int argument 'flags' and return an int; SDL_QuitSubSystem takes one
\* unsigned int 'flags' and returns nothing; SDL_Quit takes no argument and
\* returns nothing.
C11_BindingSignatures ==
    /\ \A w \in {SDL_Init, SDL_InitSubSystem, SDL_WasInit, SDL_QuitSubSystem} :
          w.args = <<"flags">>
    /\ SDL_Quit.args = <<>>
    /\ sdl.f \in {"SDL_Init", "SDL_InitSubSystem", "SDL_WasInit"} =>
          TakesAndReturns(sdl, <<"c_uint">>, "int")
    /\ sdl.f = "SDL_QuitSubSystem" => TakesAndReturns(sdl, <<"c_uint">>, "NoneType")
    /\ sdl.f = "SDL_Quit" => TakesAndReturns(sdl, <<>>, "NoneType")

\* SDL_QuitSubSystem(-1) went through: the flags arrived as 0xFFFFFFFF and
\* nothing came back.
C11_Witness ==
    /\ sdl.f = "SDL_QuitSubSystem"
    /\ sdl.exc = "none"
    /\ sdl.args = <<PyInt(-1)>>
    /\ sdl.passed[1].v = <<65535, 65535>>
    /\ sdl.ret = PyNone

====
